---- MODULE Spec2Model ----
(***************************************************************************)
(* CPM teaching tool (PP_Sim_App_v1 / PP_Sim_App_v2): the topological      *)
(* orderer, the forward/backward pass of computeCPM, the drag handlers     *)
(* that write minStart overrides, and the page around them: the projects,  *)
(* the stages and their checks, and the evaluation request.                *)
(*                                                                         *)
(* A task is a record [id, duration, deps]; deps is a sequence of ids as   *)
(* in the source (string[]).  JS objects used as maps (indeg, ES, EF, LS,  *)
(* LF, slack, minStart) are functions whose DOMAIN is the set of keys      *)
(* present.  JS numbers are integers; the three non-integer values the     *)
(* code can produce are encoded by the integers Undefined, NaN and         *)
(* NegInfinity below, and the arithmetic operators treat them as JS does.  *)
(***************************************************************************)
EXTENDS Integers, Sequences, FiniteSets, TLC

VARIABLES
  copy,      \* which copy of the engine ran last: "v2", "v1" or "v1old"
  tasks,     \* the current project's task list
  minStart,  \* the overrides: task id -> earliest allowed start
  stage,     \* "esef", "lslf" or "interactive"
  dragging,  \* <<>> (null) or <<[id, startX, origStart]>>
  order,     \* what topoSort returned
  computed,  \* what computeCPM returned
  tests,     \* what runCPMTests returned
  called,    \* the function that ran last, "none" before any
  moved,     \* <<>> or <<[start, visited, writes, before]>>: the start the
             \* last mouse move of the drag under way asked for (origStart +
             \* deltaUnits), the ids whose override its propagation raised,
             \* in call order, its writes, and what the map object of before
             \* the move holds after it
  app        \* the rest of the page's state: projects, currentProjectId, the
             \* custom project's tasks, ESin, EFin, LSin, LFin, the evaluation
             \* requests under way, and what the last handler displayed

vars == <<copy, tasks, minStart, stage, dragging, order, computed, tests, called,
          moved, app>>

-----------------------------------------------------------------------------
(* Bounds of the model *)

\* the engine without overrides runs on every task list of at most MaxTasks
\* tasks (and on the sample projects)
MaxTasks == 3
\* with arbitrary overrides, on every list of at most MaxOvTasks tasks (and on
\* the house painting project and the diamond)
MaxOvTasks == 2
\* a generated task is short (duration 1) or long (duration MaxDur)
MaxDur == 2
\* arbitrary override maps take values -1..MaxStart
MaxStart == 2

\* the partial orders are computed for every list of at most MaxLooseTasks
\* tasks whose deps may form cycles and may name a task that does not exist
MaxLooseTasks == 2

\* dragging runs on every acyclic list of at most MaxDragTasks tasks (and on
\* the sample projects)
MaxDragTasks == 2
\* a drag is followed while the project ends at most MaxDelay units after its
\* end without overrides
MaxDelay == 1

-----------------------------------------------------------------------------
(* JS values *)

\* a missing key of an object: obj[k] === undefined
Undefined == -777777
\* Math.max / Math.min / "-" over an undefined operand
NaN == -888888
\* Math.max() of no arguments
NegInfinity == -999999

IsNumber(x) == x # Undefined /\ x # NaN

\* obj[k]
Get(obj, k) == IF k \in DOMAIN obj THEN obj[k] ELSE Undefined

\* obj[k] = v
Put(obj, k, v) == [x \in DOMAIN obj \cup {k} |-> IF x = k THEN v ELSE obj[x]]

EmptyMap == [x \in {} |-> 0]

\* the elements of a sequence
Range(s) == {s[i] : i \in 1..Len(s)}

\* Math.max(...xs): NaN as soon as one argument is not a number, -Infinity
\* without arguments
MathMax(xs) ==
  IF \E i \in 1..Len(xs) : ~IsNumber(xs[i]) THEN NaN
  ELSE IF xs = <<>> THEN NegInfinity
  ELSE CHOOSE m \in Range(xs) : \A y \in Range(xs) : y <= m

\* Math.min(...xs), called with at least one argument
MathMin(xs) ==
  IF \E i \in 1..Len(xs) : ~IsNumber(xs[i]) THEN NaN
  ELSE CHOOSE m \in Range(xs) : \A y \in Range(xs) : m <= y

\* a + b and a - b
Plus(a, b) == IF IsNumber(a) /\ IsNumber(b) THEN a + b ELSE NaN
Minus(a, b) == IF IsNumber(a) /\ IsNumber(b) THEN a - b ELSE NaN

\* a variant that also holds for equal numbers
GreaterOrEqual(a, b) == IsNumber(a) /\ IsNumber(b) /\ a >= b

\* a variant that holds whenever the two numbers differ
Differs(a, b) == IsNumber(a) /\ IsNumber(b) /\ a # b

\* a > b: false as soon as one side is not a number
Greater(a, b) == IsNumber(a) /\ IsNumber(b) /\ a > b

\* x || d (app.js) : undefined, NaN and 0 are falsy
OrElse(x, d) == IF x = Undefined \/ x = NaN \/ x = 0 THEN d ELSE x

\* x ?? d (App.tsx) : only undefined is nullish
Nullish(x, d) == IF x = Undefined THEN d ELSE x

\* the three copies of the engine: app.js, App.tsx (first half), and the
\* older copy in the second half of App.tsx
Copies == {"v2", "v1", "v1old"}

\* minStart[id] || 0 in app.js, minStart[id] ?? 0 in App.tsx
Default(c, x, d) == IF c = "v2" THEN OrElse(x, d) ELSE Nullish(x, d)

-----------------------------------------------------------------------------
(* Tasks *)

Task(id, duration, deps) == [id |-> id, duration |-> duration, deps |-> deps]

TaskIds(ts) == {ts[i].id : i \in 1..Len(ts)}

\* tasks.find(t => t.id === id) / byId[id]: the ids of a project are unique
\* (saveTask replaces a task of the same id)
Find(ts, id) == ts[CHOOSE i \in 1..Len(ts) : ts[i].id = id]

\* d occurs in the deps list
Includes(deps, d) == \E i \in 1..Len(deps) : deps[i] = d

-----------------------------------------------------------------------------
(* topoSort *)

RECURSIVE PushDeps(_, _, _, _)
\* t.deps.forEach(d => { graph[d] = graph[d] || []; graph[d].push(t.id) })
PushDeps(deps, j, id, graph) ==
  IF j > Len(deps) THEN graph
  ELSE PushDeps(deps, j + 1, id,
                Put(graph, deps[j],
                    Append(IF deps[j] \in DOMAIN graph THEN graph[deps[j]] ELSE <<>>, id)))

RECURSIVE BuildGraph(_, _, _)
\* the successor lists: graph[d] holds the ids of the tasks that list d,
\* in the order of the task list (graph in topoSort, succs in computeCPM)
BuildGraph(ts, i, graph) ==
  IF i > Len(ts) THEN graph
  ELSE BuildGraph(ts, i + 1, PushDeps(ts[i].deps, 1, ts[i].id, graph))

RECURSIVE BuildIndegFlag(_, _, _)
\* a variant that counts a task with deps once, whatever their number
BuildIndegFlag(ts, i, indeg) ==
  IF i > Len(ts) THEN indeg
  ELSE BuildIndegFlag(ts, i + 1,
                      Put(indeg, ts[i].id, IF Len(ts[i].deps) # 0 THEN 1 ELSE 0))

RECURSIVE BuildIndeg(_, _, _)
\* indeg[t.id] = (indeg[t.id] || 0) + 1 for each dep of t
BuildIndeg(ts, i, indeg) ==
  IF i > Len(ts) THEN indeg
  ELSE BuildIndeg(ts, i + 1,
                  Put(indeg, ts[i].id,
                      OrElse(Get(indeg, ts[i].id), 0) + Len(ts[i].deps)))

RECURSIVE FilterSources(_, _, _)
\* tasks.filter(t => (indeg[t.id] || 0) === 0).map(t => t.id)
FilterSources(ts, i, indeg) ==
  IF i > Len(ts) THEN <<>>
  ELSE (IF OrElse(Get(indeg, ts[i].id), 0) = 0 THEN <<ts[i].id>> ELSE <<>>)
       \o FilterSources(ts, i + 1, indeg)

RECURSIVE RelaxAlways(_, _, _, _)
\* a variant that enqueues every successor, whatever its count
RelaxAlways(vs, j, indeg, q) ==
  IF j > Len(vs) THEN <<indeg, q>>
  ELSE RelaxAlways(vs, j + 1, Put(indeg, vs[j], Minus(Get(indeg, vs[j]), 1)),
                   Append(q, vs[j]))

RECURSIVE Relax(_, _, _, _)
\* (graph[u] || []).forEach(v => { indeg[v] -= 1; if (indeg[v] === 0) q.push(v) })
\* yields the pair <<indeg, q>>
Relax(vs, j, indeg, q) ==
  IF j > Len(vs) THEN <<indeg, q>>
  ELSE LET v == vs[j]
           n == Minus(Get(indeg, v), 1)
       IN Relax(vs, j + 1, Put(indeg, v, n), IF n = 0 THEN Append(q, v) ELSE q)

RECURSIVE KahnLoopLifo(_, _, _, _)
\* a variant that takes the newest entry of the queue (q.pop()) first
KahnLoopLifo(graph, q, ord, indeg) ==
  IF q = <<>> THEN ord
  ELSE LET u == q[Len(q)]
           r == Relax(IF u \in DOMAIN graph THEN graph[u] ELSE <<>>, 1, indeg,
                      SubSeq(q, 1, Len(q) - 1))
       IN KahnLoopLifo(graph, r[2], Append(ord, u), r[1])

RECURSIVE KahnLoop(_, _, _, _)
\* while (q.length) { const u = q.shift(); order.push(u); ... }
KahnLoop(graph, q, ord, indeg) ==
  IF q = <<>> THEN ord
  ELSE LET u == Head(q)
           r == Relax(IF u \in DOMAIN graph THEN graph[u] ELSE <<>>, 1, indeg, Tail(q))
       IN KahnLoop(graph, r[2], Append(ord, u), r[1])

topoSort(ts) ==
  LET indeg == BuildIndeg(ts, 1, EmptyMap)
      graph == BuildGraph(ts, 1, EmptyMap)
  IN KahnLoop(graph, FilterSources(ts, 1, indeg), <<>>, indeg)

-----------------------------------------------------------------------------
(* computeCPM *)

\* preds.map(p => EF[p])
Lookup(obj, ks) == [j \in 1..Len(ks) |-> Get(obj, ks[j])]

\* a variant that looks at the first predecessor only
PredEFFirst(EF, preds) == IF Len(preds) # 0 THEN Get(EF, preds[1]) ELSE 0

\* const predEF = preds.length ? Math.max(...preds.map(p => EF[p])) : 0
PredEF(EF, preds) == IF Len(preds) # 0 THEN MathMax(Lookup(EF, preds)) ELSE 0

\* a variant in which an override replaces the predecessors' bound
StartOfOverride(c, predEF, override) ==
  IF override # Undefined THEN override ELSE predEF

\* a variant that leaves the override out
StartOfNoOverride(c, predEF, override) == predEF

\* const start = Math.max(predEF, minStart[id] || 0)
StartOf(c, predEF, override) == MathMax(<<predEF, Default(c, override, 0)>>)

RECURSIVE ForwardPass(_, _, _, _, _, _, _)
\* for (const id of order) { ...; ES[id] = start; EF[id] = start + t.duration }
\* yields the pair <<ES, EF>>
ForwardPass(c, ts, ms, ord, i, ES, EF) ==
  IF i > Len(ord) THEN <<ES, EF>>
  ELSE LET id == ord[i]
           t == Find(ts, id)
           start == StartOf(c, PredEF(EF, t.deps), Get(ms, id))
       IN ForwardPass(c, ts, ms, ord, i + 1,
                      Put(ES, id, start), Put(EF, id, Plus(start, t.duration)))

\* Object.values(EF): the keys of EF are the ids of order, inserted in order
ObjectValues(ord, EF) == [i \in 1..Len(ord) |-> EF[ord[i]]]

\* a variant that takes the finish of the last task of the order
ProjectDurationLast(c, efs) == IF efs = <<>> THEN 0 ELSE efs[Len(efs)]

\* const projectDuration = Math.max(...Object.values(EF), 0)
\* and, in the older copy, Math.max(...Object.values(EF))
ProjectDuration(c, efs) ==
  IF c = "v1old" THEN MathMax(efs) ELSE MathMax(efs \o <<0>>)

\* a variant that looks at the first successor only
LatestFinishFirst(s, LS, projectDuration) ==
  IF Len(s) = 0 THEN projectDuration ELSE Get(LS, s[1])

\* LF[id] = s.length === 0 ? projectDuration : Math.min(...s.map(v => LS[v]))
LatestFinish(s, LS, projectDuration) ==
  IF Len(s) = 0 THEN projectDuration ELSE MathMin(Lookup(LS, s))

\* a variant that walks the order forwards
ReverseNot(s) == s

\* [...order].reverse()
Reverse(s) == [i \in 1..Len(s) |-> s[Len(s) + 1 - i]]

RECURSIVE BackwardPass(_, _, _, _, _, _, _)
\* for (const id of rev) { ...; LF[id] = ...; LS[id] = LF[id] - t.duration }
\* yields the pair <<LS, LF>>
BackwardPass(ts, succs, projectDuration, rev, i, LS, LF) ==
  IF i > Len(rev) THEN <<LS, LF>>
  ELSE LET id == rev[i]
           t == Find(ts, id)
           s == IF id \in DOMAIN succs THEN succs[id] ELSE <<>>
           lf == LatestFinish(s, LS, projectDuration)
       IN BackwardPass(ts, succs, projectDuration, rev, i + 1,
                       Put(LS, id, Minus(lf, t.duration)), Put(LF, id, lf))

\* a variant that misses the zero
IsCriticalStrict(sl) == IsNumber(sl) /\ sl < 0

\* if (Math.abs(slack[t.id]) < 1e-9) critical.add(t.id)
IsCritical(sl) == IsNumber(sl) /\ sl = 0

\* a variant with the difference the other way round
SlackOfSwapped(ts, ES, LS) ==
  [id \in TaskIds(ts) |-> Minus(Get(ES, id), Get(LS, id))]

\* slack[t.id] = LS[t.id] - ES[t.id], for (const t of tasks)
SlackOf(ts, ES, LS) ==
  [id \in TaskIds(ts) |-> Minus(Get(LS, id), Get(ES, id))]

computeCPM(c, ts, ms) ==
  LET ord == topoSort(ts)
      fwd == ForwardPass(c, ts, ms, ord, 1, EmptyMap, EmptyMap)
      pd == ProjectDuration(c, ObjectValues(ord, fwd[2]))
      succs == BuildGraph(ts, 1, EmptyMap)
      bwd == BackwardPass(ts, succs, pd, Reverse(ord), 1, EmptyMap, EmptyMap)
      sl == SlackOf(ts, fwd[1], bwd[1])
  IN [ES |-> fwd[1], EF |-> fwd[2], LS |-> bwd[1], LF |-> bwd[2],
      slack |-> sl, critical |-> {id \in TaskIds(ts) : IsCritical(sl[id])},
      projectDuration |-> pd]

-----------------------------------------------------------------------------
(* The sample projects and the regression tests *)

\* INITIAL_PROJECTS[0] (PROJECTS[0] in the older copy): House Painting
P1 ==
  << Task("A", 4, <<>>), Task("B", 3, <<"A">>), Task("C", 3, <<"A">>),
     Task("D", 5, <<"B", "C">>), Task("E", 3, <<"D">>) >>

\* INITIAL_PROJECTS[1]: Website Landing Page
P2 ==
  << Task("A", 3, <<>>), Task("B", 3, <<"A">>), Task("C", 4, <<"A">>),
     Task("D", 5, <<"B">>), Task("E", 6, <<"D", "C">>), Task("F", 3, <<"E">>),
     Task("G", 3, <<"F">>) >>

\* INITIAL_PROJECTS[2]: Event Planning Weekend
P3 ==
  << Task("A", 3, <<>>), Task("B", 3, <<>>), Task("C", 4, <<"A">>),
     Task("D", 5, <<"A">>), Task("E", 3, <<"B">>), Task("F", 3, <<"C", "E">>),
     Task("G", 3, <<"F", "D">>) >>

\* the diamond of runCPMTests
Diamond ==
  << Task("A", 1, <<>>), Task("B", 3, <<"A">>), Task("C", 3, <<"A">>),
     Task("D", 1, <<"B", "C">>) >>

\* runCPMTests(): the six checks, each [name, pass]
runCPMTests ==
  LET p1 == computeCPM("v1old", P1, EmptyMap)
      p2 == computeCPM("v1old", P2, EmptyMap)
      p3 == computeCPM("v1old", P3, EmptyMap)
      dm == computeCPM("v1old", Diamond, EmptyMap)
  IN << [name |-> "p1 duration == 15", pass |-> p1.projectDuration = 15],
        [name |-> "p1: B and C critical", pass |-> "B" \in p1.critical /\ "C" \in p1.critical],
        [name |-> "p2 duration == 23", pass |-> p2.projectDuration = 23],
        [name |-> "p3 duration == 13", pass |-> p3.projectDuration = 13],
        [name |-> "diamond duration == 5", pass |-> dm.projectDuration = 5],
        [name |-> "diamond: B & C critical", pass |-> "B" \in dm.critical /\ "C" \in dm.critical] >>

-----------------------------------------------------------------------------
(* Inputs *)

\* the ids generateNextTaskId hands out, in order
Ids == <<"A", "B", "C", "D", "E", "F", "G">>

RECURSIVE SortedSeq(_)
\* the elements of a set of numbers, ascending
SortedSeq(S) ==
  IF S = {} THEN <<>>
  ELSE LET m == CHOOSE x \in S : \A y \in S : x <= y
       IN <<m>> \o SortedSeq(S \ {m})

\* the deps of the task at position i picked among the other n - 1 tasks: the
\* checked boxes of the task editor, in the order of the task list
DepsAt(i, S) ==
  LET pos == SortedSeq({IF j >= i THEN j + 1 ELSE j : j \in S})
  IN [k \in 1..Len(pos) |-> Ids[pos[k]]]

\* the task list of n tasks named A, B, ... in list order, with durations d
\* and the deps g picks
GenList(n, d, g) == [i \in 1..n |-> Task(Ids[i], d[i], DepsAt(i, g[i]))]

\* tasks is any list of at most maxN tasks, each short or long, with deps on
\* other tasks of the list (cycles included)
PickTasks(maxN) ==
  \E n \in 0..maxN :
    \E d \in [1..n -> {1, MaxDur}], g \in [1..n -> SUBSET (1..(n - 1))] :
      tasks = GenList(n, d, g)

\* every map from some of the ids to a value of vals
MapsOver(ids, vals) == UNION {[S -> vals] : S \in SUBSET ids}

-----------------------------------------------------------------------------
(* The engine applied to a task list: topoSort, computeCPM, runCPMTests *)

\* DEFAULT_PROJECT_IDS
DefaultProjectIds == <<"p1", "p2", "p3">>

\* the state object as first built, less the fields held by other variables
AppStart ==
  [projects |-> DefaultProjectIds,
   currentProjectId |-> "p1",
   custom |-> <<>>,
   ESin |-> EmptyMap, EFin |-> EmptyMap, LSin |-> EmptyMap, LFin |-> EmptyMap,
   isEvaluating |-> FALSE,
   pending |-> 0,
   requests |-> 0,
   shown |-> <<>>]

\* the record computeCPM returns for no tasks (app.js, App.tsx first copy)
EmptySchedule ==
  [ES |-> EmptyMap, EF |-> EmptyMap, LS |-> EmptyMap, LF |-> EmptyMap,
   slack |-> EmptyMap, critical |-> {}, projectDuration |-> 0]

InitEngine ==
  /\ copy = "v2"
  /\ stage = "esef"
  /\ dragging = <<>>
  /\ order = <<>>
  /\ computed = EmptySchedule
  /\ tests = <<>>
  /\ called = "none"
  /\ moved = <<>>
  /\ app = AppStart

\* computeCPM(tasks) and the other calls without overrides
InitCPM ==
  /\ \/ tasks \in {P1, P2, P3, Diamond}
     \/ PickTasks(MaxTasks)
  /\ minStart = EmptyMap
  /\ InitEngine

CallTopoSort ==
  /\ called = "none"
  /\ order' = topoSort(tasks)
  /\ called' = "topoSort"
  /\ UNCHANGED <<copy, tasks, minStart, stage, dragging, computed, tests, moved, app>>

CallComputeCPM ==
  /\ called = "none"
  /\ \E c \in Copies :
       /\ copy' = c
       /\ computed' = computeCPM(c, tasks, minStart)
  /\ called' = "computeCPM"
  /\ UNCHANGED <<tasks, minStart, stage, dragging, order, tests, moved, app>>

\* useEffect(() => { const results = runCPMTests(); ... }, []) of the older
\* component, mounted on PROJECTS[0] with no overrides
RunCPMTests ==
  /\ called = "none"
  /\ tasks = P1 /\ minStart = EmptyMap
  /\ tests' = runCPMTests
  /\ copy' = "v1old"
  /\ called' = "runCPMTests"
  /\ UNCHANGED <<tasks, minStart, stage, dragging, order, computed, moved, app>>

NextCPM == CallTopoSort \/ CallComputeCPM \/ RunCPMTests

SpecCPM == InitCPM /\ [][NextCPM]_vars

\* computeCPM(tasks, minStart) with any overrides on the short lists, the
\* house painting project and the diamond, and without overrides on the two
\* larger sample projects
InitOverride ==
  /\ \/ /\ tasks \in {P1, Diamond} \/ PickTasks(MaxOvTasks)
        /\ minStart \in MapsOver(TaskIds(tasks), (-1)..MaxStart)
     \/ /\ tasks \in {P2, P3}
        /\ minStart = EmptyMap
  /\ InitEngine

NextOverride == CallComputeCPM

SpecOverride == InitOverride /\ [][NextOverride]_vars

-----------------------------------------------------------------------------
(* The engine applied to lists with cycles and missing deps *)

\* an id no task of a list has
MissingId == "X"

\* the list GenList(n, d, g) in which the tasks of z also list MissingId
GenLoose(n, d, g, z) ==
  [i \in 1..n |-> Task(Ids[i], d[i],
                       DepsAt(i, g[i]) \o (IF i \in z THEN <<MissingId>> ELSE <<>>))]

PickLoose(maxN) ==
  \E n \in 0..maxN :
    \E d \in [1..n -> {1, MaxDur}], g \in [1..n -> SUBSET (1..(n - 1))],
       z \in SUBSET (1..n) :
      tasks = GenLoose(n, d, g, z)

\* two tasks that list each other
Cycle2 == <<Task("A", 2, <<"B">>), Task("B", 3, <<"A">>)>>

\* a list with a well-formed part (A, B, E) and a part behind a missing dep
\* (C, D)
Broken ==
  <<Task("A", 1, <<>>), Task("B", 2, <<"A">>), Task("C", 1, <<"B", MissingId>>),
    Task("D", 2, <<"C">>), Task("E", 1, <<"A">>)>>

InitPartial ==
  /\ tasks \in {Cycle2, Broken} \/ PickLoose(MaxLooseTasks)
  /\ minStart \in MapsOver(TaskIds(tasks) \cap {"A", "B", "C"}, {MaxStart})
  /\ InitEngine

NextPartial == CallTopoSort \/ CallComputeCPM

SpecPartial == InitPartial /\ [][NextPartial]_vars

-----------------------------------------------------------------------------
(* Dependency chains, for stating the properties *)

\* p is listed in the deps of the task t
Lists(t, p) == Includes(t.deps, p)

\* every dep names a task of the list
DepsExist(ts) ==
  \A i \in 1..Len(ts) : Range(ts[i].deps) \subseteq TaskIds(ts)

UniqueIds(ts) == \A i, j \in 1..Len(ts) : ts[i].id = ts[j].id => i = j

RECURSIVE ChainsOfLen(_, _)
\* the chains of k tasks: each one is listed in the deps of the next
ChainsOfLen(ts, k) ==
  IF k = 1 THEN {<<ts[i].id>> : i \in 1..Len(ts)}
  ELSE LET shorter == ChainsOfLen(ts, k - 1)
       IN UNION {{Append(ch, ts[i].id) : i \in {j \in 1..Len(ts) : Lists(ts[j], ch[Len(ch)])}}
                 : ch \in shorter}

RECURSIVE Peel(_, _)
\* what is left of the ids after taking away, again and again, the tasks
\* none of whose deps is left
Peel(ts, left) ==
  LET free == {id \in left : Range(Find(ts, id).deps) \cap left = {}}
  IN IF free = {} THEN left ELSE Peel(ts, left \ free)

\* no task depends, through any number of deps, on itself
Acyclic(ts) == Peel(ts, TaskIds(ts)) = {}

ValidDAG(ts) == UniqueIds(ts) /\ DepsExist(ts) /\ Acyclic(ts)

Chains(ts) == UNION {ChainsOfLen(ts, k) : k \in 1..Len(ts)}

\* the largest element of a non-empty set of numbers
SetMax(S) == CHOOSE m \in S : \A x \in S : x <= m
SetMin(S) == CHOOSE m \in S : \A x \in S : m <= x

\* the ids of the tasks that list id in their deps
Listing(ts, id) == {ts[i].id : i \in {j \in 1..Len(ts) : Lists(ts[j], id)}}

RECURSIVE Closure(_, _)
\* S and every task that lists, through any number of deps, a task of S
Closure(ts, S) ==
  LET next == S \cup UNION {Listing(ts, id) : id \in S}
  IN IF next = S THEN S ELSE Closure(ts, next)

\* the tasks that depend on id through one or more deps
Dependents(ts, id) == Closure(ts, Listing(ts, id))

RECURSIVE ChainSum(_, _)
\* the sum of the durations along a chain
ChainSum(ts, ch) ==
  IF ch = <<>> THEN 0 ELSE Find(ts, Head(ch)).duration + ChainSum(ts, Tail(ch))

\* the largest sum of durations along a chain, 0 without tasks
LongestChain(ts) ==
  LET sums == {ChainSum(ts, ch) : ch \in Chains(ts)} \cup {0}
  IN CHOOSE m \in sums : \A x \in sums : x <= m

\* the tasks on some longest chain
OnLongestChain(ts) ==
  LET longest == LongestChain(ts)
  IN {id \in TaskIds(ts) :
        \E ch \in Chains(ts) : id \in Range(ch) /\ ChainSum(ts, ch) = longest}

\* the position of an id in a sequence of distinct ids
IndexOf(s, id) == CHOOSE i \in 1..Len(s) : s[i] = id

\* the ids in list order
IdsInOrder(ts) == [i \in 1..Len(ts) |-> ts[i].id]

\* the ids of the tasks without deps, in list order
SourcesInOrder(ts) ==
  LET F[i \in 0..Len(ts)] ==
        IF i = 0 THEN <<>>
        ELSE IF ts[i].deps = <<>> THEN Append(F[i - 1], ts[i].id) ELSE F[i - 1]
  IN F[Len(ts)]

RECURSIVE KahnFifo(_, _, _)
\* Kahn's algorithm by sets: the head of the FIFO queue is emitted, and the
\* tasks that list it and whose deps are then all emitted join the queue in
\* list order
KahnFifo(ts, q, out) ==
  IF q = <<>> THEN out
  ELSE LET u == Head(q)
           emitted == Range(out) \cup {u}
           ready == {i \in 1..Len(ts) :
                       /\ Lists(ts[i], u)
                       /\ Range(ts[i].deps) \subseteq emitted}
           idx == SortedSeq(ready)
       IN KahnFifo(ts, Tail(q) \o [k \in 1..Len(idx) |-> ts[idx[k]].id], Append(out, u))

-----------------------------------------------------------------------------
(* Dragging: handleBarMouseDown, handleMouseMove, propagateConstraints,     *)
(* handleMouseUp (onBarMouseDown, onMouseMove, propagate, onMouseUp in      *)
(* App.tsx)                                                                 *)

\* state.unitWidth as first set; render rescales it to the container, which
\* changes the pixels of a unit and not the units a pointer can reach
UnitWidth == 28

\* where the pointer goes down on a bar, in pixels
DownXs == {28}

\* where it moves to: a unit back, half a unit back, nowhere, a unit further
MouseXs == {0, 14, 28, 56}

\* eight tasks in three layers: A, then B, C, D on A, then E, F, G on each of
\* B, C, D, then H on each of E, F, G
Fan ==
  <<Task("A", 1, <<>>),
    Task("B", 1, <<"A">>), Task("C", 4, <<"A">>), Task("D", 7, <<"A">>),
    Task("E", 1, <<"B", "C", "D">>), Task("F", 2, <<"B", "C", "D">>),
    Task("G", 3, <<"B", "C", "D">>),
    Task("H", 1, <<"E", "F", "G">>)>>

\* the pointer positions of the moves on the list ts in copy c: on the fan
\* one far move of nine units, on the first sample project of app.js also a
\* move of two units
PointerXs(c, ts) ==
  IF ts = Fan THEN {28 + 9 * UnitWidth}
  ELSE IF c = "v2" /\ ts = P1 THEN MouseXs \cup {28 + 2 * UnitWidth}
  ELSE MouseXs

\* how many units late the project may end for a move to be followed
DelayBound(c, ts) ==
  IF ts = Fan THEN 9 ELSE IF c = "v2" /\ ts = P1 THEN 2 ELSE MaxDelay

\* Math.round(dx / unitWidth): halves round up
RoundUnits(dx) == (2 * dx + UnitWidth) \div (2 * UnitWidth)

\* project.tasks.filter(t => t.deps.includes(taskId)).map(t => t.id)
SuccsOf(ts, id) ==
  LET F[i \in 0..Len(ts)] ==
        IF i = 0 THEN <<>>
        ELSE IF Includes(ts[i].deps, id) THEN Append(F[i - 1], ts[i].id) ELSE F[i - 1]
  IN F[Len(ts)]

\* a variant that leaves out the durations of the predecessors
ConservativeEFNoDuration(c, ts, comp, preds, newMinStart) ==
  MathMax([j \in 1..Len(preds) |->
             MathMax(<<Default(c, Get(newMinStart, preds[j]), Get(comp.ES, preds[j])),
                       Get(comp.ES, preds[j])>>)])

\* a variant that reads the schedule only and overlooks the overrides written
\* so far
ConservativeEFStale(c, ts, comp, preds, newMinStart) ==
  MathMax([j \in 1..Len(preds) |->
             Plus(Get(comp.ES, preds[j]), Find(ts, preds[j]).duration)])

\* Math.max(...succPreds.map(p => Math.max(newMinStart[p] || computed.ES[p],
\*                                         computed.ES[p]) + dur(p)))
ConservativeEF(c, ts, comp, preds, newMinStart) ==
  MathMax([j \in 1..Len(preds) |->
             LET p == preds[j]
                 override == Default(c, Get(newMinStart, p), Get(comp.ES, p))
             IN Plus(MathMax(<<override, Get(comp.ES, p)>>), Find(ts, p).duration)])

RECURSIVE propagateConstraints(_, _, _, _, _)
RECURSIVE PropagateLoop(_, _, _, _, _, _)

\* The map newMinStart is changed in place by the calls; acc holds it as
\* acc.ms, together with acc.visited, the ids raised so far in call order,
\* and acc.writes, for each write the id, the entry it replaced (undefined
\* when there was none) and the value written.

\* a variant that recurses without writing the override
RaiseWithoutWrite(c, ts, comp, succId, succPredEF, acc) ==
  propagateConstraints(c, ts, comp, succId,
                       [ms |-> acc.ms, visited |-> Append(acc.visited, succId),
                        writes |-> acc.writes])

\* a variant that writes the override and does not go on to the successors
RaiseWithoutRecursion(c, ts, comp, succId, succPredEF, acc) ==
  [ms |-> Put(acc.ms, succId, succPredEF),
   visited |-> Append(acc.visited, succId),
   writes |-> Append(acc.writes,
                     [id |-> succId, was |-> Get(acc.ms, succId),
                      value |-> succPredEF])]

\* newMinStart[succId] = succPredEF, and the recursion that follows
Raise(c, ts, comp, succId, succPredEF, acc) ==
  propagateConstraints(c, ts, comp, succId,
                       [ms |-> Put(acc.ms, succId, succPredEF),
                        visited |-> Append(acc.visited, succId),
                        writes |-> Append(acc.writes,
                                          [id |-> succId, was |-> Get(acc.ms, succId),
                                           value |-> succPredEF])])

\* for (const succId of succs) { ...; if (succPredEF > cur) {
\*   newMinStart[succId] = succPredEF; propagateConstraints(succId, ...) } }
PropagateLoop(c, ts, comp, succs, j, acc) ==
  IF j > Len(succs) THEN acc
  ELSE LET succId == succs[j]
           succPredEF == ConservativeEF(c, ts, comp, Find(ts, succId).deps, acc.ms)
           cur == Default(c, Get(acc.ms, succId), Get(comp.ES, succId))
       IN PropagateLoop(c, ts, comp, succs, j + 1,
                        IF Greater(succPredEF, cur)
                        THEN Raise(c, ts, comp, succId, succPredEF, acc)
                        ELSE acc)

\* the map and the visits after the recursion from taskId
propagateConstraints(c, ts, comp, taskId, acc) ==
  PropagateLoop(c, ts, comp, SuccsOf(ts, taskId), 1, acc)

\* origStart + deltaUnits
AskedStart(drag, clientX) == Plus(drag.origStart, RoundUnits(clientX - drag.startX))

\* a variant without the floor of the predecessors
NewStartNoFloor(comp, ts, drag, clientX) == MathMax(<<0, AskedStart(drag, clientX)>>)

\* Math.max(tentative, predEF), tentative being Math.max(0, origStart + deltaUnits)
NewStart(comp, ts, drag, clientX) ==
  LET tentative == MathMax(<<0, AskedStart(drag, clientX)>>)
      predEF == PredEF(comp.EF, Find(ts, drag.id).deps)
  IN MathMax(<<tentative, predEF>>)

\* a variant that hands back the old object with the entry written into it
SpreadAlias(objs, key, value) == <<Put(objs[1], key, value)>>

\* { ...state.minStart, [id]: newStart }: objs holds the objects there are,
\* the current map first; the spread makes a new one, the last of the result
Spread(objs, key, value) == Append(objs, Put(objs[1], key, value))

\* the objects after propagateConstraints has written into the last of objs
Propagated(c, ts, comp, drag, objs) ==
  LET res == propagateConstraints(c, ts, comp, drag.id,
                                  [ms |-> objs[Len(objs)], visited |-> <<>>,
                                   writes |-> <<>>])
  IN [ms |-> res.ms, visited |-> res.visited, writes |-> res.writes,
      before |-> [objs EXCEPT ![Len(objs)] = res.ms][1]]

\* a variant that starts from an empty map instead of a copy of the overrides
DragResultNoSpread(c, ts, ms, comp, drag, clientX) ==
  Propagated(c, ts, comp, drag,
             <<ms, Put(EmptyMap, drag.id, NewStart(comp, ts, drag, clientX))>>)

\* what handleMouseMove computes for a pointer at clientX, comp being
\* computeCPM of the overrides before the move: the new override map, the ids
\* the propagation raised, and the map object of before the move
DragResult(c, ts, ms, comp, drag, clientX) ==
  Propagated(c, ts, comp, drag,
             Spread(<<ms>>, drag.id, NewStart(comp, ts, drag, clientX)))

\* where a bar is drawn: curStart of createTaskBar (of the bars' map() in
\* App.tsx), stage === "interactive" ? (minStart[id] || es) : es
curStart(c, st, ms, comp, id) ==
  IF st = "interactive" THEN Default(c, Get(ms, id), Get(comp.ES, id))
  ELSE Get(comp.ES, id)

\* the end of the project without overrides
UndisturbedEnd(c, ts) == computeCPM(c, ts, EmptyMap).projectDuration

handleBarMouseDown ==
  /\ stage = "interactive"
  /\ \E i \in 1..Len(tasks), x \in DownXs :
       \E comp \in {computeCPM(copy, tasks, minStart)} :
         LET taskId == tasks[i].id
             orig == Default(copy, Get(minStart, taskId), Get(comp.ES, taskId))
         IN dragging' = <<[id |-> taskId, startX |-> x, origStart |-> orig]>>
  /\ moved' = <<>>
  /\ UNCHANGED <<copy, tasks, minStart, stage, order, computed, tests, called, app>>

\* a mouse move, followed by render, which recomputes the schedule
handleMouseMove ==
  /\ dragging # <<>>
  /\ dragging[1].id \in TaskIds(tasks)
  /\ \E x \in PointerXs(copy, tasks) :
       \E comp \in {computeCPM(copy, tasks, minStart)} :
         \E res \in {DragResult(copy, tasks, minStart, comp, dragging[1], x)} :
           \E rendered \in {computeCPM(copy, tasks, res.ms)} :
             /\ rendered.projectDuration
                  <= UndisturbedEnd(copy, tasks) + DelayBound(copy, tasks)
             /\ minStart' = res.ms
             /\ computed' = rendered
             /\ moved' = <<[start |-> AskedStart(dragging[1], x),
                            visited |-> res.visited,
                            writes |-> res.writes,
                            before |-> res.before]>>
  /\ UNCHANGED <<copy, tasks, stage, dragging, order, tests, called, app>>

handleMouseUp ==
  /\ dragging' = <<>>
  /\ moved' = <<>>
  /\ UNCHANGED <<copy, tasks, minStart, stage, order, computed, tests, called, app>>

\* the interactive stage with no override yet: on the first sample project in
\* every copy, and in app.js on any acyclic custom project (addProject keeps
\* the stage)
InitDrag ==
  /\ \/ /\ copy \in Copies
        /\ tasks = P1
     \/ /\ copy = "v2"
        /\ tasks \in {Diamond, Fan} \/ PickTasks(MaxDragTasks)
  /\ ValidDAG(tasks)
  /\ minStart = EmptyMap
  /\ stage = "interactive"
  /\ dragging = <<>>
  /\ order = <<>>
  /\ computed = computeCPM(copy, tasks, minStart)
  /\ tests = <<>>
  /\ called = "computeCPM"
  /\ moved = <<>>
  /\ app = AppStart

NextDrag == handleBarMouseDown \/ handleMouseMove \/ handleMouseUp

SpecDrag == InitDrag /\ [][NextDrag]_vars

-----------------------------------------------------------------------------
(* The page: projects, stages, the entered values and their checks, the     *)
(* evaluation request (app.js; CriticalPathPOC in App.tsx)                   *)

\* the copies that have the project selector and the custom project
PageCopies == {"v2", "v1"}

\* the custom project's tasks: at most this many, of this duration at most
MaxCustomTasks == 1
MaxCustomDur == 1
\* how many evaluation requests are sent in one run
MaxRequests == 1
\* values that are not the plain computed number are typed into the fields of
\* the first MaxOddTasks tasks only, and at most MaxOdd of them at a time
MaxOddTasks == 1
MaxOdd == 1
\* a drag starts only while fewer than MaxPageOverrides overrides are set, and
\* on one of the first MaxPageBars bars
MaxPageOverrides == 1
MaxPageBars == 1
\* values are typed into the fields of the first MaxTypedProjects sample
\* projects and of the custom project
MaxTypedProjects == 1

\* `p${Date.now()}`: the id addProject gives the custom project
CustomId == "pc"

\* isDefaultProject(projectId)
isDefaultProject(projectId) == Includes(DefaultProjectIds, projectId)

\* a variant that finds a custom project in no list
HasCustomProjectNever(projects) == FALSE

\* state.projects.some(p => !isDefaultProject(p.id))
HasCustomProject(projects) ==
  \E i \in 1..Len(projects) : ~isDefaultProject(projects[i])

\* the tasks of the project id: the three sample projects keep theirs
TasksOf(a, id) ==
  IF id = "p1" THEN P1
  ELSE IF id = "p2" THEN P2
  ELSE IF id = "p3" THEN P3
  ELSE a.custom

\* getCurrentProject(): state.projects.find(...) || state.projects[0]
getCurrentProject(a) ==
  IF Includes(a.projects, a.currentProjectId) THEN a.currentProjectId
  ELSE a.projects[1]

\* text typed into a field: a sequence of characters
DigitChars == <<"0", "1", "2", "3", "4", "5", "6", "7", "8", "9">>
IsDigit(ch) == \E d \in 1..10 : DigitChars[d] = ch
DigitValue(ch) == (CHOOSE d \in 1..10 : DigitChars[d] = ch) - 1

\* the decimal text of a number below 100
Digits(n) ==
  IF n < 10 THEN <<DigitChars[n + 1]>>
  ELSE <<DigitChars[(n \div 10) + 1], DigitChars[(n % 10) + 1]>>

RECURSIVE ParseDigits(_, _, _, _)
\* parseInt: the leading digits of the text, NaN when there are none
ParseDigits(s, i, acc, seen) ==
  IF i > Len(s) \/ ~IsDigit(s[i]) THEN (IF seen THEN acc ELSE NaN)
  ELSE ParseDigits(s, i + 1, 10 * acc + DigitValue(s[i]), TRUE)

\* parseIntOrNaN(state[`${field}in`][task.id]); a missing entry is undefined,
\* which parses to NaN
parseIntOrNaN(inputs, id) ==
  IF id \in DOMAIN inputs THEN ParseDigits(inputs[id], 1, 0, FALSE) ELSE NaN

\* userValue !== computed[field][task.id]
NotIdentical(a, b) == a = NaN \/ b = NaN \/ a # b

\* state[`${field}in`]
InputsOf(a, field) ==
  IF field = "ES" THEN a.ESin
  ELSE IF field = "EF" THEN a.EFin
  ELSE IF field = "LS" THEN a.LSin
  ELSE a.LFin

\* computed[field]
ComputedOf(comp, field) ==
  IF field = "ES" THEN comp.ES
  ELSE IF field = "EF" THEN comp.EF
  ELSE IF field = "LS" THEN comp.LS
  ELSE comp.LF

\* fields.filter(field => userValue !== computed[field][task.id])
FieldErrors(a, comp, fields, id) ==
  {k \in 1..Len(fields) :
     NotIdentical(parseIntOrNaN(InputsOf(a, fields[k]), id),
                  Get(ComputedOf(comp, fields[k]), id))}

\* `${task.id} (${task.name}): expected ${expected}`
Message(comp, fields, id) ==
  [id |-> id,
   expected |-> [k \in 1..Len(fields) |-> Get(ComputedOf(comp, fields[k]), id)]]

RECURSIVE DetailsPerField(_, _, _, _, _, _)
\* a variant that pushes a message for every field in error
DetailsPerField(a, ts, comp, fields, i, details) ==
  IF i > Len(ts) THEN details
  ELSE LET n == Cardinality(FieldErrors(a, comp, fields, ts[i].id))
           msg == Message(comp, fields, ts[i].id)
       IN DetailsPerField(a, ts, comp, fields, i + 1,
                          details \o [k \in 1..n |-> msg])

RECURSIVE Details(_, _, _, _, _, _)
\* for (const task of project.tasks) { ...; if (errors.length > 0) {
\*   ok = false; details.push(...) } }
Details(a, ts, comp, fields, i, details) ==
  IF i > Len(ts) THEN details
  ELSE IF FieldErrors(a, comp, fields, ts[i].id) # {}
       THEN Details(a, ts, comp, fields, i + 1,
                    Append(details, Message(comp, fields, ts[i].id)))
       ELSE Details(a, ts, comp, fields, i + 1, details)

\* validateFields(project, computed, fields) (the loops of checkESEF and
\* checkLSLF in App.tsx): ok is that no message was pushed
validateFields(a, ts, comp, fields) ==
  LET details == Details(a, ts, comp, fields, 1, <<>>)
  IN [ok |-> details = <<>>, details |-> details]

\* resetProjectState(), as far as the entered values go
ClearInputs(a) ==
  [a EXCEPT !.ESin = EmptyMap, !.EFin = EmptyMap,
            !.LSin = EmptyMap, !.LFin = EmptyMap]

\* what the handler that ran displayed: <<>> for nothing, else a modal or an
\* alert and the handler's name
Did(a, name, shown) ==
  [a EXCEPT !.shown = [k \in 1..Len(shown) |->
                         [by |-> name, kind |-> shown[k].kind,
                          ok |-> shown[k].ok, details |-> shown[k].details]]]

\* alert(...)
Alert == <<[kind |-> "alert", ok |-> FALSE, details |-> <<>>]>>

\* useEffect(() => { setStage("esef"); ... }, [currentProjectId]) of App.tsx:
\* it runs when the id has changed
EffectRuns(c, old, new) == c = "v1" /\ old # new

\* what a page handler leaves behind: the page state a, the stage st and the
\* overrides ms, and render()'s computeCPM of the current project
Render(a, st, ms) ==
  /\ app' = a
  /\ stage' = st
  /\ minStart' = ms
  /\ tasks' = TasksOf(a, getCurrentProject(a))
  /\ \E comp \in {computeCPM(copy, TasksOf(a, getCurrentProject(a)), ms)} :
       computed' = comp
  /\ moved' = <<>>
  /\ UNCHANGED <<copy, dragging, order, tests, called>>

\* the same with resetProjectState() when reset holds
RenderReset(reset, a, name) ==
  IF reset THEN Render(Did(ClearInputs(a), name, <<>>), "esef", EmptyMap)
  ELSE Render(Did(a, name, <<>>), stage, minStart)

\* no bar is held: what is done with the pointer or by typing waits for the
\* mouse button to be released, what a key press on a focused button does
\* (a project button, the reset button) does not
PointerFree == dragging = <<>>

\* a click on a project button: switchProject(projectId) in app.js,
\* setCurrentProjectId(p.id) and the effect in App.tsx
switchProject ==
  \E k \in 1..Len(app.projects) :
    LET projectId == app.projects[k]
    IN RenderReset(copy = "v2" \/ EffectRuns(copy, app.currentProjectId, projectId),
                   [app EXCEPT !.currentProjectId = projectId], "switchProject")

addProject ==
  /\ PointerFree
  /\ IF HasCustomProject(app.projects)
     THEN Render(Did(app, "addProject", Alert), stage, minStart)
     ELSE RenderReset(EffectRuns(copy, app.currentProjectId, CustomId),
                      [app EXCEPT !.projects = Append(@, CustomId),
                                  !.currentProjectId = CustomId,
                                  !.custom = <<>>],
                      "addProject")

\* deleteProject(): refused on a sample project; else confirm() is answered
\* yes or no
deleteProject ==
  /\ PointerFree
  /\ IF isDefaultProject(app.currentProjectId)
     THEN Render(Did(app, "deleteProject", Alert), stage, minStart)
     ELSE \E confirmed \in BOOLEAN :
            IF confirmed
            THEN LET left == SelectSeq(app.projects,
                                       LAMBDA p : p # app.currentProjectId)
                 IN RenderReset(EffectRuns(copy, app.currentProjectId, left[1]),
                                [app EXCEPT !.projects = left,
                                            !.currentProjectId = left[1],
                                            !.custom = <<>>],
                                "deleteProject")
            ELSE Render(Did(app, "deleteProject", <<>>), stage, minStart)

\* "Yes, Reset Project" in the modal of resetProjectData() (resetProject() in
\* App.tsx), which opens on the custom project only
confirmResetProject ==
  /\ PointerFree
  /\ ~isDefaultProject(app.currentProjectId)
  /\ RenderReset(TRUE, [app EXCEPT !.custom = <<>>], "confirmResetProject")

\* the "Reset project" button under the chart, drawn when there are tasks
ResetButton ==
  /\ Len(tasks) > 0
  /\ RenderReset(TRUE, app, "ResetButton")

\* the four corner inputs of a bar, in the order they are filled
FieldOrder == <<"ES", "EF", "LS", "LF">>

\* the disabled attribute of a corner input, negated: on a sample project
\* ES/EF are open in stage esef only, LS/LF in the later stages only
InputEnabled(a, st, field) ==
  LET isDefault == isDefaultProject(a.currentProjectId)
  IN IF field \in {"ES", "EF"} THEN ~(isDefault /\ st # "esef")
     ELSE ~(isDefault /\ st = "esef")

\* the open inputs task by task: <<i, field>> for each task i and open field
Slots(a, st, ts) ==
  LET fields == SelectSeq(FieldOrder, LAMBDA f : InputEnabled(a, st, f))
      n == Len(fields)
  IN [k \in 1..(Len(ts) * n) |-> <<((k - 1) \div n) + 1, fields[((k - 1) % n) + 1]>>]

\* the open inputs that are still empty
EmptySlots(a, st, ts) ==
  {k \in 1..Len(Slots(a, st, ts)) :
     ts[Slots(a, st, ts)[k][1]].id \notin DOMAIN InputsOf(a, Slots(a, st, ts)[k][2])}

\* how many entries are not the plain text of the computed number
OddEntries(a, ts, comp) ==
  Cardinality({<<i, f>> \in (1..Len(ts)) \X Range(FieldOrder) :
                 /\ ts[i].id \in DOMAIN InputsOf(a, f)
                 /\ \/ ~IsNumber(Get(ComputedOf(comp, f), ts[i].id))
                    \/ InputsOf(a, f)[ts[i].id] # Digits(Get(ComputedOf(comp, f), ts[i].id))})

\* the texts typed into a field whose computed value is v: the number, and
\* for the first tasks also the number followed by a letter and another number
TypedValues(a, ts, comp, i, v) ==
  IF ~IsNumber(v) THEN {<<"x">>}
  ELSE {Digits(v)} \cup
       (IF i <= MaxOddTasks /\ OddEntries(a, ts, comp) < MaxOdd
        THEN {Digits(v) \o <<"x">>, Digits(v + 1)} ELSE {})

\* state[fieldMap[field]][taskId] = value
SetInput(a, field, taskId, value) ==
  IF field = "ES" THEN [a EXCEPT !.ESin = Put(@, taskId, value)]
  ELSE IF field = "EF" THEN [a EXCEPT !.EFin = Put(@, taskId, value)]
  ELSE IF field = "LS" THEN [a EXCEPT !.LSin = Put(@, taskId, value)]
  ELSE [a EXCEPT !.LFin = Put(@, taskId, value)]

\* handleInputChange(e) (the onChange of the corner inputs in App.tsx); the
\* open inputs are filled in order, each once
handleInputChange ==
  /\ PointerFree
  /\ \A k \in 1..Len(DefaultProjectIds) :
       app.currentProjectId = DefaultProjectIds[k] => k <= MaxTypedProjects
  /\ EmptySlots(app, stage, tasks) # {}
  /\ LET slot == Slots(app, stage, tasks)[SetMin(EmptySlots(app, stage, tasks))]
         i == slot[1]
         field == slot[2]
     IN \E value \in TypedValues(app, tasks, computed, i,
                                 Get(ComputedOf(computed, field), tasks[i].id)) :
          Render(Did(SetInput(app, field, tasks[i].id, value), "handleInputChange", <<>>),
                 stage, minStart)

\* a variant that moves to the next stage whatever the check found
CheckOutcomeAlwaysNext(a, ts, ms, st, fields, next) ==
  LET res == validateFields(a, ts, computeCPM(copy, ts, ms), fields)
  IN [stage |-> next,
      shown |-> <<[kind |-> "modal", ok |-> res.ok, details |-> res.details]>>]

\* the outcome of a check: the modal it shows and the stage it leaves
CheckOutcome(a, ts, ms, st, fields, next) ==
  LET res == validateFields(a, ts, computeCPM(copy, ts, ms), fields)
  IN [stage |-> IF res.ok THEN next ELSE st,
      shown |-> <<[kind |-> "modal", ok |-> res.ok, details |-> res.details]>>]

\* checkESEF(), the handler of the button drawn on a sample project in stage
\* esef
checkESEF ==
  /\ PointerFree
  /\ isDefaultProject(app.currentProjectId) /\ stage = "esef" /\ Len(tasks) > 0
  /\ \E out \in {CheckOutcome(app, tasks, minStart, stage, <<"ES", "EF">>, "lslf")} :
       Render(Did(app, "checkESEF", out.shown), out.stage, minStart)

\* checkLSLF(), the handler of the button drawn in stage lslf
checkLSLF ==
  /\ PointerFree
  /\ isDefaultProject(app.currentProjectId) /\ stage = "lslf" /\ Len(tasks) > 0
  /\ \E out \in {CheckOutcome(app, tasks, minStart, stage, <<"LS", "LF">>, "interactive")} :
       Render(Did(app, "checkLSLF", out.shown), out.stage, minStart)

\* generateNextTaskId(project)
generateNextTaskId(ts) ==
  IF \E i \in 1..Len(Ids) : Ids[i] \notin TaskIds(ts)
  THEN Ids[SetMin({i \in 1..Len(Ids) : Ids[i] \notin TaskIds(ts)})]
  ELSE "Z"

\* saveTask() of a new task of the custom project, depending on any of the
\* tasks there are
saveTask ==
  /\ PointerFree
  /\ ~isDefaultProject(app.currentProjectId)
  /\ Len(app.custom) < MaxCustomTasks
  /\ \E duration \in 1..MaxCustomDur, deps \in SUBSET TaskIds(app.custom) :
       LET checked == SelectSeq([k \in 1..Len(app.custom) |-> app.custom[k].id],
                                LAMBDA d : d \in deps)
           task == Task(generateNextTaskId(app.custom), duration, checked)
       IN Render(Did([app EXCEPT !.custom = Append(@, task)], "saveTask", <<>>),
                 stage, minStart)

\* .filter(t => t.id !== taskId).map(t => ({ ...t, deps: t.deps.filter(d => d !== taskId) }))
WithoutTask(ts, taskId) ==
  LET kept == SelectSeq(ts, LAMBDA t : t.id # taskId)
  IN [i \in 1..Len(kept) |->
        [kept[i] EXCEPT !.deps = SelectSeq(@, LAMBDA d : d # taskId)]]

\* deleteTask(taskId) on the custom project, confirm() answered yes
deleteTask ==
  /\ PointerFree
  /\ ~isDefaultProject(app.currentProjectId)
  /\ \E i \in 1..Len(app.custom) :
       Render(Did([app EXCEPT !.custom = WithoutTask(@, app.custom[i].id)],
                  "deleteTask", <<>>),
              stage, minStart)

\* project.tasks.every(t => ESin[t.id] && EFin[t.id] && LSin[t.id] && LFin[t.id])
allFieldsFilled(a, ts) ==
  \A i \in 1..Len(ts) : \A f \in Range(FieldOrder) :
    ts[i].id \in DOMAIN InputsOf(a, f) /\ InputsOf(a, f)[ts[i].id] # <<>>

\* submitForEvaluation() up to its await: the request leaves; App.tsx also
\* sets isEvaluating, which disables the button
Submitted(c, a) ==
  [a EXCEPT !.pending = @ + 1, !.requests = @ + 1,
            !.isEvaluating = IF c = "v1" THEN TRUE ELSE @]

\* the button of the custom project, drawn under the chart when all fields
\* of its tasks are filled
submitForEvaluation ==
  /\ PointerFree
  /\ ~isDefaultProject(app.currentProjectId)
  /\ Len(tasks) > 0
  /\ allFieldsFilled(app, tasks)
  /\ ~app.isEvaluating
  /\ app.requests < MaxRequests
  /\ Render(Did(Submitted(copy, app), "submitForEvaluation", <<>>), stage, minStart)

\* a variant whose failure also empties the custom project
SettledClearing(c, a, ok) ==
  [a EXCEPT !.pending = @ - 1,
            !.custom = IF ok THEN @ ELSE <<>>,
            !.isEvaluating = IF c = "v1" THEN FALSE ELSE @,
            !.shown = <<[by |-> "submitForEvaluation",
                         kind |-> IF ok THEN "modal" ELSE "alert",
                         ok |-> ok, details |-> <<>>]>>]

\* submitForEvaluation() after its await: a modal with the answer, or the
\* catch block's alert
Settled(c, a, ok) ==
  [a EXCEPT !.pending = @ - 1,
            !.isEvaluating = IF c = "v1" THEN FALSE ELSE @,
            !.shown = <<[by |-> "submitForEvaluation",
                         kind |-> IF ok THEN "modal" ELSE "alert",
                         ok |-> ok, details |-> <<>>]>>]

\* the answer of POST /api/evaluate arrives: 200 with the text, or 500
EvaluationResponds ==
  /\ app.pending > 0
  /\ \E ok \in BOOLEAN : Render(Settled(copy, app, ok), stage, minStart)

\* a mouse down on a bar while few overrides are set
PageMouseDown ==
  /\ Cardinality(DOMAIN minStart) < MaxPageOverrides
  /\ handleBarMouseDown
  /\ \E i \in 1..MaxPageBars : i <= Len(tasks) /\ dragging'[1].id = tasks[i].id

\* the page as loaded: the first sample project in stage esef
InitStage ==
  /\ copy \in PageCopies
  /\ app = AppStart
  /\ tasks = P1
  /\ minStart = EmptyMap
  /\ stage = "esef"
  /\ dragging = <<>>
  /\ order = <<>>
  /\ computed = computeCPM(copy, P1, EmptyMap)
  /\ tests = <<>>
  /\ called = "none"
  /\ moved = <<>>

\* the stages of the sample projects: entering values, the two checks, the
\* reset button, the project buttons and the drags
NextStage ==
  \/ switchProject \/ ResetButton
  \/ handleInputChange \/ checkESEF \/ checkLSLF
  \/ PageMouseDown \/ handleMouseMove \/ handleMouseUp

SpecStage == InitStage /\ [][NextStage]_vars

\* the entered values after both checks of the list ts have passed
AllEntered(c, ts) ==
  LET comp == computeCPM(c, ts, EmptyMap)
      text(m) == [id \in TaskIds(ts) |-> Digits(m[id])]
  IN [AppStart EXCEPT !.ESin = text(comp.ES), !.EFin = text(comp.EF),
                      !.LSin = text(comp.LS), !.LFin = text(comp.LF)]

\* values are typed into the fields of the custom project
TypeCustom ==
  /\ ~isDefaultProject(app.currentProjectId)
  /\ handleInputChange

\* the page as loaded, or the first sample project after both of its checks
\* have passed
InitPage ==
  \/ InitStage
  \/ /\ copy \in PageCopies
     /\ app = AllEntered(copy, P1)
     /\ tasks = P1
     /\ minStart = EmptyMap
     /\ stage = "interactive"
     /\ dragging = <<>>
     /\ order = <<>>
     /\ computed = computeCPM(copy, P1, EmptyMap)
     /\ tests = <<>>
     /\ called = "none"
     /\ moved = <<>>

\* the projects: adding, deleting, resetting and switching them, editing the
\* custom project, the evaluation request, and the drags
NextPage ==
  \/ switchProject \/ ResetButton \/ EvaluationResponds
  \/ addProject \/ deleteProject \/ confirmResetProject
  \/ TypeCustom \/ saveTask \/ deleteTask \/ submitForEvaluation
  \/ PageMouseDown \/ handleMouseMove \/ handleMouseUp

SpecPage == InitPage /\ [][NextPage]_vars

-----------------------------------------------------------------------------
(* Claims about the engine without overrides (SpecCPM) *)

\* C4: without overrides, projectDuration is the largest sum of durations
\* along a dependency chain of an acyclic task list, and the regression tests
\* on the three sample projects (15, 23, 13) and the diamond (5) pass.  The
\* empty list, which has no chain, is C8's.
C4_LongestPath ==
  /\ (called = "computeCPM" /\ minStart = EmptyMap /\ ValidDAG(tasks) /\ tasks # <<>>)
       => /\ computed.projectDuration = LongestChain(tasks)
          /\ tasks = P1 => computed.projectDuration = 15
          /\ tasks = P2 => computed.projectDuration = 23
          /\ tasks = P3 => computed.projectDuration = 13
          /\ tasks = Diamond => computed.projectDuration = 5
  /\ called = "runCPMTests"
       => /\ Len(tests) = 6
          /\ tests[1].pass /\ tests[3].pass /\ tests[4].pass /\ tests[5].pass

\* the schedule of a list with a longest chain and a shorter chain that also
\* ends at a task no task lists
C4_Witness ==
  /\ called = "computeCPM" /\ minStart = EmptyMap /\ ValidDAG(tasks)
  /\ \E a, b \in Chains(tasks) :
       /\ Len(a) > 1
       /\ ChainSum(tasks, a) = computed.projectDuration
       /\ ChainSum(tasks, b) < computed.projectDuration
       /\ Listing(tasks, b[Len(b)]) = {}

\* C5: without overrides, a task is critical exactly when it lies on some
\* longest chain; the tasks of two equal parallel branches are all critical
\* (tests "p1: B and C critical", "diamond: B & C critical").
C5_CriticalIffLongest ==
  /\ (called = "computeCPM" /\ minStart = EmptyMap /\ ValidDAG(tasks))
       => /\ computed.critical = OnLongestChain(tasks)
          /\ tasks \in {P1, Diamond} => {"B", "C"} \subseteq computed.critical
  /\ called = "runCPMTests" => Len(tests) = 6 /\ tests[2].pass /\ tests[6].pass

\* the schedule of the diamond: the two equal branches B and C into D are
\* critical
C5_Witness ==
  /\ called = "computeCPM" /\ minStart = EmptyMap
  /\ tasks = Diamond
  /\ computed.critical = {"A", "B", "C", "D"}

\* C8 (as stated): for an empty task list every copy returns
\* projectDuration = 0 with empty maps and an empty critical set; for a
\* non-empty list projectDuration is the largest EF of the scheduled tasks.
C8_EmptyAndMax ==
  called = "computeCPM" =>
    /\ tasks = <<>> => computed = EmptySchedule
    /\ (tasks # <<>> /\ DOMAIN computed.EF # {}) =>
         /\ \E id \in DOMAIN computed.EF : computed.projectDuration = computed.EF[id]
         /\ \A id \in DOMAIN computed.EF : computed.EF[id] <= computed.projectDuration

\* C9: on an acyclic list with unique ids and existing deps, topoSort
\* returns every id exactly once, each task after all of its deps.
C9_TopoOrder ==
  (called = "topoSort" /\ ValidDAG(tasks)) =>
    /\ Len(order) = Len(tasks)
    /\ Range(order) = TaskIds(tasks)
    /\ \A i \in 1..Len(tasks) : \A d \in Range(tasks[i].deps) :
         IndexOf(order, d) < IndexOf(order, tasks[i].id)

\* topoSort had to reorder a list in which a task precedes one of its deps
C9_Witness ==
  /\ called = "topoSort" /\ ValidDAG(tasks)
  /\ Len(order) = 3
  /\ order # IdsInOrder(tasks)
  /\ \E i \in 1..Len(tasks) : Len(tasks[i].deps) = 2

\* C10: the tie-break is the input order: the tasks without deps come first,
\* in list order, and the whole output is the one of Kahn's algorithm with a
\* FIFO queue seeded in list order and successors enqueued in list order.
C10_FifoTieBreak ==
  (called = "topoSort" /\ ValidDAG(tasks)) =>
    /\ Len(order) >= Len(SourcesInOrder(tasks))
    /\ SubSeq(order, 1, Len(SourcesInOrder(tasks))) = SourcesInOrder(tasks)
    /\ order = KahnFifo(tasks, SourcesInOrder(tasks), <<>>)

\* two tasks without deps, apart in the list, were kept in list order ahead
\* of a task listed between them
C10_Witness ==
  /\ called = "topoSort" /\ ValidDAG(tasks)
  /\ Len(tasks) = 3
  /\ tasks[1].deps = <<>> /\ tasks[2].deps # <<>> /\ tasks[3].deps = <<>>
  /\ order = <<"A", "C", "B">>

-----------------------------------------------------------------------------
(* Claims about the engine under arbitrary overrides (SpecOverride) *)

\* C1: precedence: on an acyclic list whose deps exist, under any minStart
\* map, ES[t] >= EF[p] for every task t and every p in t.deps.
C1_Precedence ==
  (called = "computeCPM" /\ ValidDAG(tasks)) =>
    \A i \in 1..Len(tasks) : \A p \in Range(tasks[i].deps) :
      /\ tasks[i].id \in DOMAIN computed.ES /\ p \in DOMAIN computed.EF
      /\ IsNumber(computed.ES[tasks[i].id]) /\ IsNumber(computed.EF[p])
      /\ computed.ES[tasks[i].id] >= computed.EF[p]

\* a task with an override below its predecessor's finish was scheduled at
\* that finish
C1_Witness ==
  /\ called = "computeCPM" /\ ValidDAG(tasks)
  /\ \E i \in 1..Len(tasks) : \E p \in Range(tasks[i].deps) :
       /\ tasks[i].id \in DOMAIN minStart
       /\ minStart[tasks[i].id] > 0
       /\ minStart[tasks[i].id] < computed.EF[p]
       /\ computed.ES[tasks[i].id] = computed.EF[p]

\* C6: forward pass: for every task t of the order,
\* ES[t] = max(0, EF of the deps, minStart[t] if present), EF[t] = ES[t] +
\* duration; without deps and without a positive override, ES[t] = 0.
C6_ForwardPass ==
  called = "computeCPM" =>
    \A id \in DOMAIN computed.ES :
      LET t == Find(tasks, id)
          bounds == {0} \cup {Get(computed.EF, p) : p \in Range(t.deps)}
                        \cup {minStart[x] : x \in {id} \cap DOMAIN minStart}
      IN /\ \A b \in bounds : IsNumber(b)
         /\ computed.ES[id] = SetMax(bounds)
         /\ id \in DOMAIN computed.EF
         /\ computed.EF[id] = computed.ES[id] + t.duration
         /\ (t.deps = <<>> /\ (id \notin DOMAIN minStart \/ minStart[id] <= 0))
              => computed.ES[id] = 0

\* a task with deps starts at its override, later than its deps finish, and a
\* task without deps has a negative override and starts at 0
C6_Witness ==
  /\ called = "computeCPM"
  /\ \E id \in DOMAIN computed.ES :
       /\ Find(tasks, id).deps # <<>>
       /\ id \in DOMAIN minStart
       /\ computed.ES[id] = minStart[id]
       /\ \A p \in Range(Find(tasks, id).deps) : computed.EF[p] < minStart[id]
  /\ \E id \in DOMAIN computed.ES :
       /\ Find(tasks, id).deps = <<>>
       /\ id \in DOMAIN minStart /\ minStart[id] < 0
       /\ computed.ES[id] = 0

\* C7: backward pass: for every task t of the order, LF[t] = projectDuration
\* when no task lists t, otherwise the least LS[v] over the tasks v that list
\* t (stated where these are all scheduled); LS[t] = LF[t] - duration; on a
\* valid DAG LF = LS + duration, 0 <= LS[t] and LF[t] <= projectDuration.
C7_BackwardPass ==
  called = "computeCPM" =>
    /\ \A id \in DOMAIN computed.LF :
         LET succs == Listing(tasks, id)
         IN /\ succs = {} => computed.LF[id] = computed.projectDuration
            /\ (succs # {} /\ succs \subseteq DOMAIN computed.ES)
                 => /\ succs \subseteq DOMAIN computed.LS
                    /\ computed.LF[id] = SetMin({computed.LS[v] : v \in succs})
            /\ IsNumber(computed.LF[id])
                 => computed.LS[id] = computed.LF[id] - Find(tasks, id).duration
    /\ ValidDAG(tasks) =>
         \A id \in TaskIds(tasks) :
           /\ id \in DOMAIN computed.LS /\ id \in DOMAIN computed.LF
           /\ IsNumber(computed.LS[id]) /\ IsNumber(computed.LF[id])
           /\ computed.LF[id] = computed.LS[id] + Find(tasks, id).duration
           /\ 0 <= computed.LS[id]
           /\ computed.LF[id] <= computed.projectDuration

\* a task listed by two tasks of different latest start got the smaller one
C7_Witness ==
  /\ called = "computeCPM" /\ ValidDAG(tasks)
  /\ \E id \in DOMAIN computed.LF : \E v, w \in Listing(tasks, id) :
       /\ computed.LS[v] < computed.LS[w]
       /\ computed.LF[id] = computed.LS[v]
       /\ computed.LF[id] < computed.projectDuration

-----------------------------------------------------------------------------
(* Claims about the schedules that drags reach (SpecDrag) *)

\* C2: non-negative slack: on an acyclic list with durations >= 1 and all
\* deps present, under every minStart map that drags reach from the empty
\* map, slack[t] = LS[t] - ES[t] >= 0 for every task t.
C2_NonNegativeSlack ==
  (ValidDAG(tasks) /\ \A i \in 1..Len(tasks) : tasks[i].duration >= 1) =>
    \A id \in TaskIds(tasks) :
      /\ {id} \subseteq DOMAIN computed.slack \cap DOMAIN computed.LS \cap DOMAIN computed.ES
      /\ IsNumber(computed.LS[id]) /\ IsNumber(computed.ES[id])
      /\ computed.slack[id] = computed.LS[id] - computed.ES[id]
      /\ computed.slack[id] >= 0

\* drags have delayed the project, pushed a successor, and left a task with
\* slack
C2_Witness ==
  /\ ValidDAG(tasks)
  /\ computed.projectDuration > UndisturbedEnd(copy, tasks)
  /\ \E id \in DOMAIN minStart : Find(tasks, id).deps # <<>> /\ minStart[id] > 0
  /\ \E id \in TaskIds(tasks) : computed.slack[id] > 0

\* the chain ch runs through critical tasks only and ends at a task that no
\* task lists
CriticalChainToSink(ch) ==
  /\ Range(ch) \subseteq computed.critical
  /\ Listing(tasks, ch[Len(ch)]) = {}

\* C3 (as stated): on a non-empty acyclic list, with or without overrides,
\* the critical set contains a chain t1, ..., tk of critical tasks, t1 with no
\* predecessors, tk with no successors, each one in the deps of the next.
C3_SourceToSink ==
  (ValidDAG(tasks) /\ tasks # <<>>) =>
    \E ch \in Chains(tasks) :
      /\ CriticalChainToSink(ch)
      /\ Find(tasks, ch[1]).deps = <<>>

\* C3 (amended): on a non-empty acyclic list the critical set contains a
\* chain of critical tasks that ends at a task with no successors and starts
\* at a task that has no predecessors or starts at its own override, later
\* than all its predecessors finish; without overrides the chain starts at a
\* task with no predecessors.
C3_ChainFromSourceOrOverride ==
  (ValidDAG(tasks) /\ tasks # <<>>) =>
    /\ \E ch \in Chains(tasks) :
         /\ CriticalChainToSink(ch)
         /\ \/ Find(tasks, ch[1]).deps = <<>>
            \/ /\ ch[1] \in DOMAIN minStart
               /\ computed.ES[ch[1]] = minStart[ch[1]]
               /\ \A p \in Range(Find(tasks, ch[1]).deps) :
                    computed.EF[p] < minStart[ch[1]]
    /\ minStart = EmptyMap =>
         \E ch \in Chains(tasks) :
           CriticalChainToSink(ch) /\ Find(tasks, ch[1]).deps = <<>>

\* after a drag of a task with deps, no critical chain to a sink starts at a
\* task without deps, and one starts at the dragged task
C3_Witness ==
  /\ ValidDAG(tasks) /\ tasks # <<>>
  /\ minStart # EmptyMap
  /\ \A ch \in Chains(tasks) :
       CriticalChainToSink(ch) => Find(tasks, ch[1]).deps # <<>>
  /\ \E ch \in Chains(tasks) :
       /\ CriticalChainToSink(ch)
       /\ ch[1] \in DOMAIN minStart
       /\ computed.ES[ch[1]] = minStart[ch[1]]

\* a step of handleMouseMove that changes something: the drag stays under way
\* and the move is recorded
Moving ==
  /\ dragging # <<>> /\ dragging' = dragging
  /\ moved' # <<>>
  /\ <<moved, minStart>>' # <<moved, minStart>>

\* the task under the pointer and its deps
Dragged == dragging[1].id
DraggedDeps == Range(Find(tasks, Dragged).deps)

\* C15: drag clamp: the override written for the dragged task u is the
\* largest of the start asked for (negative ones included), 0 and the EF, in
\* the schedule before the move, of u's deps.
C15_DragClamp ==
  [][Moving =>
       /\ Dragged \in DOMAIN minStart'
       /\ minStart'[Dragged] =
            SetMax({moved'[1].start, 0} \cup {computed.EF[p] : p \in DraggedDeps})
       /\ minStart'[Dragged] >= 0
       /\ \A p \in DraggedDeps : minStart'[Dragged] >= computed.EF[p]]_vars

\* a task with deps was asked to start before its deps finish and is pinned
\* at their finish
C15_Witness ==
  /\ dragging # <<>> /\ moved # <<>>
  /\ DraggedDeps # {}
  /\ moved[1].start < minStart[Dragged]
  /\ \E p \in DraggedDeps : computed.EF[p] = minStart[Dragged]

\* the value of x before a raise: its override if present, else its ES in
\* the schedule before the move
CurrentValue(m, x) == IF x \in DOMAIN m THEN m[x] ELSE computed.ES[x]

\* c(x): the larger of that value and the ES before the move
ConservativeStart(m, x) == SetMax({CurrentValue(m, x), computed.ES[x]})

RECURSIVE OnePass(_, _, _, _)
\* one pass over the tasks of desc in the order ord: the override of v is set
\* to the largest c(p) + duration(p) over its deps p when that exceeds v's
\* value, and left alone otherwise
OnePass(ord, i, desc, m) ==
  IF i > Len(ord) THEN m
  ELSE LET v == ord[i]
           floor == SetMax({ConservativeStart(m, p) + Find(tasks, p).duration
                              : p \in Range(Find(tasks, v).deps)})
       IN IF v \in desc /\ floor > CurrentValue(m, v)
          THEN OnePass(ord, i + 1, desc, Put(m, v, floor))
          ELSE OnePass(ord, i + 1, desc, m)

\* C16: propagation result: the map after a drag of u equals the map of one
\* pass over u's descendants in topological order; dragging B from 4 to 6 in
\* the first sample project yields {B: 6, D: 9, E: 14} and a project of 17.
C16_OnePassResult ==
  [][Moving =>
       /\ minStart' = OnePass(topoSort(tasks), 1, Dependents(tasks, Dragged),
                              Put(minStart, Dragged, minStart'[Dragged]))
       /\ (tasks = P1 /\ minStart = EmptyMap /\ Dragged = "B"
             /\ dragging[1].origStart = 4 /\ moved'[1].start = 6)
            => /\ minStart' = [x \in {"B", "D", "E"} |->
                                 IF x = "B" THEN 6 ELSE IF x = "D" THEN 9 ELSE 14]
               /\ computed'.projectDuration = 17]_vars

\* B of the first sample project has been dragged from 4 to 6
C16_Witness ==
  /\ tasks = P1 /\ dragging # <<>> /\ moved # <<>>
  /\ Dragged = "B" /\ dragging[1].origStart = 4 /\ moved[1].start = 6
  /\ moved[1].visited = <<"D", "E">>
  /\ DOMAIN minStart = {"B", "D", "E"}
  /\ minStart["B"] = 6 /\ minStart["D"] = 9 /\ minStart["E"] = 14
  /\ computed.projectDuration = 17

\* the start of x after the move: its override if it has one, else its ES
\* before the move
ResultingStart(x) == IF x \in DOMAIN minStart' THEN minStart'[x] ELSE computed.ES[x]

\* for every edge p -> v whose v the propagation visited, v starts no earlier
\* than p's start plus p's duration
VisitedEdgesHold ==
  \A v \in Range(moved'[1].visited) : \A p \in Range(Find(tasks, v).deps) :
    ResultingStart(v) >= ResultingStart(p) + Find(tasks, p).duration

\* C17 (as stated): after the propagation of a drag no task's minStart entry
\* is lower than its ES in the schedule before the drag, and precedence holds
\* for every edge whose target was visited.
C17_Monotone ==
  [][Moving =>
       /\ \A id \in DOMAIN minStart' : minStart'[id] >= computed.ES[id]
       /\ VisitedEdgesHold]_vars

\* C17 (amended): after the propagation of a drag no task other than the
\* dragged one has a minStart entry lower than its ES in the schedule before
\* the drag; the dragged task's entry is at least 0 and the EF of its deps
\* before the drag; precedence holds for every edge whose target was visited.
C17_MonotoneButDragged ==
  [][Moving =>
       /\ \A id \in DOMAIN minStart' \ {Dragged} : minStart'[id] >= computed.ES[id]
       /\ minStart'[Dragged] >= 0
       /\ \A p \in DraggedDeps : minStart'[Dragged] >= computed.EF[p]
       /\ VisitedEdgesHold]_vars

\* a task with deps that an earlier move had put later has been dragged back
\* below the start it had
C17_Witness ==
  /\ dragging # <<>> /\ moved # <<>>
  /\ DraggedDeps # {}
  /\ moved[1].start < dragging[1].origStart
  /\ minStart[Dragged] = moved[1].start

RECURSIVE SumOver(_, _)
\* the sum of f[x] over the x of S
SumOver(f, S) ==
  IF S = {} THEN 0
  ELSE LET x == CHOOSE y \in S : TRUE IN f[x] + SumOver(f, S \ {x})

\* by how much the move raised the start of x
RaisedBy(x) == ResultingStart(x) - CurrentValue(minStart, x)

\* how often the propagation visited x
Visits(rec, x) == Cardinality({i \in 1..Len(rec.visited) : rec.visited[i] = x})

\* C18: termination: on an acyclic list the recursion of a drag finishes
\* after finitely many calls: it only enters tasks that depend on the dragged
\* one, and every call it makes has raised an override by at least one unit,
\* so there are at most as many calls as units raised.
C18_FinitelyManyCalls ==
  [][Moving =>
       LET desc == Dependents(tasks, Dragged)
       IN /\ Range(moved'[1].visited) \subseteq desc
          /\ Len(moved'[1].visited) <= SumOver([v \in desc |-> RaisedBy(v)], desc)]_vars

\* a propagation has finished that entered some task more than once
C18_Witness ==
  /\ dragging # <<>> /\ moved # <<>>
  /\ Acyclic(tasks)
  /\ \E v \in TaskIds(tasks) : Visits(moved[1], v) >= 2

\* the dependency chains that lead from the task u to the task v
ChainsFromTo(u, v) == {ch \in Chains(tasks) : ch[1] = u /\ ch[Len(ch)] = v}

\* C19 (as stated): during the propagation of one drag over an N-task DAG
\* each task is visited at most N times.
C19_AtMostN ==
  moved # <<>> =>
    \A v \in TaskIds(tasks) : Visits(moved[1], v) <= Len(tasks)

\* C19 (amended): during the propagation of one drag each task other than the
\* dragged one is visited at most once for every dependency chain that leads
\* from the dragged task to it, and at most once for every unit its start is
\* raised by.
C19_AtMostOncePerChain ==
  [][Moving =>
       \A v \in TaskIds(tasks) \ {Dragged} :
         /\ Visits(moved'[1], v) <= Cardinality(ChainsFromTo(Dragged, v))
         /\ Visits(moved'[1], v) <= RaisedBy(v)]_vars

\* a drag of the first task of the eight-task fan has visited the last task
\* nine times
C19_Witness ==
  /\ tasks = Fan /\ dragging # <<>> /\ moved # <<>>
  /\ Dragged = "A"
  /\ Visits(moved[1], "H") = 9
  /\ Cardinality(ChainsFromTo("A", "H")) = 9

\* the tasks a drag may touch: the dragged task and the tasks that depend on it
Touched == {Dragged} \cup Dependents(tasks, Dragged)

\* C20: a drag of the task u changes the minStart entries of u and of the
\* tasks that depend on u only: every other task keeps its override, or the
\* absence of one, and its ES and EF in the recomputed schedule are those of
\* the schedule before the move.
C20_OnlyDependentsChange ==
  [][Moving =>
       \A x \in TaskIds(tasks) \ Touched :
         /\ (x \in DOMAIN minStart') <=> (x \in DOMAIN minStart)
         /\ x \in DOMAIN minStart => minStart'[x] = minStart[x]
         /\ computed'.ES[x] = computed.ES[x]
         /\ computed'.EF[x] = computed.EF[x]]_vars

\* a drag has raised a task that depends on the dragged one while a task
\* outside its dependents holds an override and another holds none
C20_Witness ==
  /\ dragging # <<>> /\ moved # <<>>
  /\ moved[1].visited # <<>>
  /\ \E x \in TaskIds(tasks) \ Touched : x \in DOMAIN minStart
  /\ \E y \in TaskIds(tasks) \ Touched : y \notin DOMAIN minStart

C22_SlackAbsorbs ==
  [][(Moving /\ minStart = EmptyMap /\ moved'[1].start > computed.ES[Dragged]) =>
       LET d == moved'[1].start - computed.ES[Dragged]
           sl == computed.slack[Dragged]
       IN computed'.projectDuration =
            computed.projectDuration + (IF d <= sl THEN 0 ELSE d - sl)]_vars

\* a move off the schedule without overrides that stays within the positive
\* slack of the dragged task
C22_Witness ==
  /\ dragging # <<>> /\ moved # <<>> /\ moved[1].before = EmptyMap
  /\ LET u == Dragged
         free == computeCPM(copy, tasks, EmptyMap)
     IN /\ free.slack[u] > 0
        /\ moved[1].start > free.ES[u]
        /\ moved[1].start - free.ES[u] <= free.slack[u]

\* C28: overrides only grow for the tasks that are not being dragged: on
\* every step of a sequence of drag events, a task other than the one under
\* the pointer keeps its override or gets a higher one, never loses it, and
\* every write of a propagation puts a value above the entry it replaces and
\* above the task's ES before the move; a bar moved right and then back left
\* leaves the raised overrides of its successors where they are.
C28_OverridesOnlyGrow ==
  [][/\ \A x \in DOMAIN minStart :
          (dragging = <<>> \/ x # Dragged)
            => x \in DOMAIN minStart' /\ minStart'[x] >= minStart[x]
     /\ Moving =>
          \A k \in 1..Len(moved'[1].writes) :
            LET w == moved'[1].writes[k]
            IN /\ w.id # Dragged
               /\ w.was # Undefined => w.value > w.was
               /\ w.value > computed.ES[w.id]]_vars

\* a bar that had been moved right is back at a start below its override of
\* before, and a task that depends on it still holds a raised override, above
\* what the schedule asks for
C28_Witness ==
  /\ dragging # <<>> /\ moved # <<>>
  /\ Dragged \in DOMAIN moved[1].before
  /\ minStart[Dragged] < moved[1].before[Dragged]
  /\ \E v \in Dependents(tasks, Dragged) :
       /\ v \in DOMAIN minStart /\ v \in DOMAIN moved[1].before
       /\ minStart[v] = moved[1].before[v]
       /\ minStart[v] > SetMax({0} \cup {computed.EF[p] : p \in Range(Find(tasks, v).deps)})

\* C29: displayed positions respect precedence: on a fixed acyclic list,
\* after any sequence of drags from the empty minStart, every task with an
\* override has that override as its recomputed ES, and the start at which
\* the bar of a task is drawn is at least the drawn start plus the duration
\* of each of its deps.
C29_DisplayedPrecedence ==
  /\ \A x \in DOMAIN minStart :
       x \in DOMAIN computed.ES /\ computed.ES[x] = minStart[x]
  /\ \A i \in 1..Len(tasks) : \A p \in Range(tasks[i].deps) :
       /\ IsNumber(curStart(copy, stage, minStart, computed, tasks[i].id))
       /\ IsNumber(curStart(copy, stage, minStart, computed, p))
       /\ curStart(copy, stage, minStart, computed, tasks[i].id)
            >= curStart(copy, stage, minStart, computed, p) + Find(tasks, p).duration

\* after drags a task holds an override above the finish of its deps, a task
\* that depends on it was pushed to an override of its own, and a task with
\* deps holds no override and is drawn at its ES
C29_Witness ==
  /\ moved # <<>> /\ moved[1].before # EmptyMap
  /\ \E u \in DOMAIN minStart :
       /\ Find(tasks, u).deps # <<>>
       /\ \A p \in Range(Find(tasks, u).deps) : minStart[u] > computed.EF[p]
       /\ \E v \in Dependents(tasks, u) :
            v \in DOMAIN minStart /\ minStart[v] >= minStart[u] + Find(tasks, u).duration
  /\ \E y \in TaskIds(tasks) \ DOMAIN minStart : Find(tasks, y).deps # <<>>

-----------------------------------------------------------------------------
(* Claims about the stages and the checks (SpecStage) *)

\* the check that has just shown its modal, "none" when the last handler
\* was no check
CheckShown(a) ==
  IF a.shown # <<>> /\ a.shown[1].by \in {"checkESEF", "checkLSLF"}
  THEN a.shown[1].by ELSE "none"

\* the fields a check compares
FieldsOf(check) == IF check = "checkESEF" THEN <<"ES", "EF">> ELSE <<"LS", "LF">>

\* the number the check reads from the field f of the task id equals the
\* computed one
Matches(a, comp, f, id) ==
  /\ id \in DOMAIN ComputedOf(comp, f)
  /\ IsNumber(ComputedOf(comp, f)[id])
  /\ parseIntOrNaN(InputsOf(a, f), id) = ComputedOf(comp, f)[id]

\* the step is the check named, it found every task's two values equal to
\* the computed ones and said so
PassedBy(check) ==
  /\ CheckShown(app') = check
  /\ app'.shown[1].ok
  /\ \A i \in 1..Len(tasks) : \A f \in Range(FieldsOf(check)) :
       Matches(app, computed, f, tasks[i].id)

\* the four maps of entered values
Entered(a) == <<a.ESin, a.EFin, a.LSin, a.LFin>>

Mismatching(a, comp, check) ==
  {i \in 1..Len(tasks) :
     \E f \in Range(FieldsOf(check)) : ~Matches(a, comp, f, tasks[i].id)}

C30_DragOnlyInteractive ==
  [][/\ (dragging' # <<>> /\ dragging' # dragging) => stage = "interactive"
     /\ stage \in {"esef", "lslf"} =>
          /\ minStart = EmptyMap
          /\ moved' # <<>> => minStart' = minStart]_vars

-----------------------------------------------------------------------------
(* Claims about the projects and the evaluation request (SpecPage) *)

\* ESin, EFin, LSin and LFin of the page state a are empty
NoInputs(a) ==
  a.ESin = EmptyMap /\ a.EFin = EmptyMap /\ a.LSin = EmptyMap /\ a.LFin = EmptyMap

\* C23: whenever the current project changes (another project selected, a
\* project added, the current one deleted) the stage is esef afterwards and
\* ESin, EFin, LSin, LFin and minStart are empty.
C23_ResetOnChange ==
  [][app'.currentProjectId # app.currentProjectId =>
       stage' = "esef" /\ NoInputs(app') /\ minStart' = EmptyMap]_vars

\* the entries of the project list that are no sample project
CustomEntries(a) == {k \in 1..Len(a.projects) : ~isDefaultProject(a.projects[k])}

\* C26: after any sequence of addProject, deleteProject, the reset of the
\* custom project and project switches, the three sample projects p1, p2, p3
\* are in the list, at most one custom project is, and currentProjectId names
\* a project of the list.
C26_ProjectList ==
  /\ {"p1", "p2", "p3"} \subseteq Range(app.projects)
  /\ Cardinality(CustomEntries(app)) <= 1
  /\ Includes(app.projects, app.currentProjectId)

\* with the custom project in the list, addProject has refused a second one
C26_Witness ==
  /\ Cardinality(CustomEntries(app)) = 1
  /\ app.shown # <<>> /\ app.shown[1].by = "addProject" /\ app.shown[1].kind = "alert"

\* C27: the evaluation request has no bearing on scheduling: the step that
\* sends it and the step in which its answer or its failure arrives, at
\* whatever point between drags, edits, resets and project switches, change
\* none of tasks, minStart, stage and the computed schedule (nor the drag, the
\* projects and the entered values), and a failure shows an alert and nothing
\* else.
C27_EvaluationApart ==
  [][app'.pending # app.pending =>
       /\ tasks' = tasks /\ minStart' = minStart /\ stage' = stage
       /\ computed' = computed
       /\ dragging' = dragging
       /\ app'.projects = app.projects /\ app'.custom = app.custom
       /\ app'.currentProjectId = app.currentProjectId
       /\ Entered(app') = Entered(app)
       /\ app'.pending < app.pending =>
            /\ Len(app'.shown) = 1
            /\ app'.shown[1].kind = (IF app'.shown[1].ok THEN "modal" ELSE "alert")]_vars

\* the request has failed after the user had gone to a sample project while
\* it was in flight
C27_Witness ==
  /\ app.pending = 0 /\ app.requests > 0
  /\ app.shown # <<>> /\ app.shown[1].by = "submitForEvaluation"
  /\ app.shown[1].kind = "alert"
  /\ isDefaultProject(app.currentProjectId)
  /\ tasks = TasksOf(app, app.currentProjectId)

-----------------------------------------------------------------------------
(* Claims about lists with cycles and missing deps (SpecPartial) *)

\* the tasks on a cycle and the tasks that list an id no task has
OnCycle(ts) == {id \in TaskIds(ts) : id \in Dependents(ts, id)}
ListsMissing(ts) == {id \in TaskIds(ts) : ~(Range(Find(ts, id).deps) \subseteq TaskIds(ts))}

\* the tasks on a cycle, the tasks that list a missing id, and the tasks that
\* depend on one of these
Unschedulable(ts) == Closure(ts, OnCycle(ts) \cup ListsMissing(ts))

\* C11: topoSort returns an order shorter than the list exactly when there is
\* a cycle or a dep naming no task; the tasks left out are exactly those on a
\* cycle, listing a missing id, or depending on such a task, and the others
\* come out once each, after all of their deps.
C11_PartialOrder ==
  (called = "topoSort" /\ UniqueIds(tasks)) =>
    /\ Len(order) <= Len(tasks)
    /\ Len(order) < Len(tasks) <=> (~Acyclic(tasks) \/ ~DepsExist(tasks))
    /\ Range(order) = TaskIds(tasks) \ Unschedulable(tasks)
    /\ \A i, j \in 1..Len(order) : order[i] = order[j] => i = j
    /\ \A i \in 1..Len(order) : \A p \in Range(Find(tasks, order[i]).deps) :
         \E j \in 1..(i - 1) : order[j] = p

\* an order that leaves out a task depending on a left-out task and keeps a
\* task with a dep
C11_Witness ==
  /\ called = "topoSort"
  /\ \E id \in TaskIds(tasks) \ Range(order) :
       /\ id \notin OnCycle(tasks) \cup ListsMissing(tasks)
  /\ \E i \in 1..Len(order) : Find(tasks, order[i]).deps # <<>>

\* the tasks of the list that topoSort leaves out
Omitted(ts) == TaskIds(ts) \ Range(topoSort(ts))

\* C12 (as stated): a task that topoSort leaves out has no entry in ES, EF,
\* LS, LF or slack of the schedule computeCPM returns, and is not critical.
C12_NoEntries ==
  (called = "computeCPM" /\ UniqueIds(tasks)) =>
    \A id \in Omitted(tasks) :
      /\ id \notin DOMAIN computed.ES \cup DOMAIN computed.EF
      /\ id \notin DOMAIN computed.LS \cup DOMAIN computed.LF
      /\ id \notin DOMAIN computed.slack
      /\ id \notin computed.critical

\* C13 (as stated): on a list with a cycle or a missing dep, every task of
\* the topological order has numeric ES, EF, LS and LF, also when a task that
\* lists it is left out.
C13_NumericSchedule ==
  (called = "computeCPM" /\ UniqueIds(tasks)) =>
    \A id \in Range(topoSort(tasks)) :
      /\ IsNumber(Get(computed.ES, id)) /\ IsNumber(Get(computed.EF, id))
      /\ IsNumber(Get(computed.LS, id)) /\ IsNumber(Get(computed.LF, id))

\* C14 (as stated): a dep naming no task contributes no constraint: on a list
\* without cycles a task that lists a missing id is scheduled, with ES the
\* largest of 0, the EF of its existing deps and its override.
C14_MissingDepIgnored ==
  (called = "computeCPM" /\ UniqueIds(tasks) /\ Acyclic(tasks)) =>
    \A id \in ListsMissing(tasks) :
      LET existing == Range(Find(tasks, id).deps) \cap TaskIds(tasks)
          bounds == {0} \cup {Get(computed.EF, p) : p \in existing}
                        \cup {minStart[x] : x \in {id} \cap DOMAIN minStart}
      IN /\ id \in DOMAIN computed.ES
         /\ \A b \in bounds : IsNumber(b)
         /\ computed.ES[id] = SetMax(bounds)

====
